---- MODULE Spec2Model ----
(***************************************************************************)
(* Component scope and update scheduling of yew (src/yew/src/html/scope.rs)*)
(*                                                                         *)
(* One component of kind COMP with its Scope, the shared state cell         *)
(* (Shared<Option<ComponentState<COMP>>>), the three kinds of scheduled     *)
(* units (UpdateComponent, RenderedComponent, DestroyComponent) and the     *)
(* opaque handle AnyScope.  The scheduler, NodeRef, the diff/patch engine   *)
(* and the component's own hooks are collaborators outside scope.rs; they   *)
(* are modelled at their boundary as the specification describes them.      *)
(***************************************************************************)
EXTENDS Integers, Sequences, FiniteSets, TLC

\* Number of scheduling calls (update / rendered / destroy) made on the scope
\* besides the mount itself.
MaxCalls == 2

\* ------------------------------------------------------------------------
\* Values

None == <<>>
Some(x) == <<x>>
IsSome(o) == o /= <<>>
Unwrap(o) == o[1]

\* COMP::Message of the component under test: the message is the value its
\* update hook returns (ShouldRender).
Message == BOOLEAN

\* Batches handed to send_message_batch / batch_callback.
Batches == { <<>>, <<FALSE, TRUE>>, <<TRUE, FALSE>>, <<FALSE, FALSE>> }

\* COMP::Properties of the component under test.
Properties == {"P0", "P1", "P2"}
InitialProps == "P0"

\* Component kinds (TypeId); COMP is the kind of the scope under test.
COMP == "CompA"
Kinds == {"CompA", "CompB"}

\* Node references: the one handed to mount_in_place, the one a
\* Properties update brings, and the one of a nested component at the root
\* of the rendered tree.
OwnRef == "own"
NewRef == "new"
ChildRef == "child"
NodeRefs == {OwnRef, NewRef, ChildRef}

\* The state cell of the scope under test (identity of the Rc<RefCell<..>>).
CellId == "cell0"

VARIABLES
    cell,          \* Option<ComponentState>: None or Some(record)
    refs,          \* NodeRef contents: ref id -> [node, link]
    updateQ,       \* scheduler queue of class Update
    renderedQ,     \* scheduler queue of class Rendered
    destroyQ,      \* scheduler queue of class Destroy
    pc,            \* "idle" | "create" (inside ComponentState::new) | "unit"
    running,       \* the unit being run (it holds the cell's borrow_mut)
    panicked,      \* a panic (expect / BorrowMutError) has ended the program
    parentScope,   \* handle given to the diff engine by the last render
    downcasted,    \* Option<Scope>: result of the last AnyScope::downcast
    calls,         \* number of scheduling calls made so far
    mountCalled,   \* mount_in_place has been called
    destroyCalled, \* destroy() has been called
    lastCall,      \* the last scope call: what it was and what it enqueued
    lastRun,       \* what the last completed unit did
    hist,          \* counters over the whole run (hook invocations)
    pass           \* counters over the current pass of the scheduler

vars == << cell, refs, updateQ, renderedQ, destroyQ, pc, running, panicked,
           parentScope, downcasted, calls, mountCalled, destroyCalled,
           lastCall, lastRun, hist, pass >>

\* ------------------------------------------------------------------------
\* Scope and AnyScope

\* Handle of the parent component, given to Scope::new.
RootAny == [type_id |-> "CompB", parent |-> None,
            state |-> [ty |-> "CompB", cell |-> "root"]]

\* Scope::new(parent): parent and a fresh, empty state cell.
ScopeNew(parent) == [comp |-> COMP, parent |-> parent, state |-> CellId]

\* The scope under test (and its clones: Clone copies both fields).
TheScope == ScopeNew(Some(RootAny))

\* impl From<Scope<COMP>> for AnyScope
AnyScopeFrom(scope) ==
    [type_id |-> scope.comp,
     parent  |-> scope.parent,
     state   |-> [ty |-> scope.comp, cell |-> scope.state]]

\* downcast as an unchecked cast.
AnyScopeDowncastUnchecked(any, kind) ==
    Some([comp |-> kind, parent |-> any.parent, state |-> any.state.cell])

\* AnyScope::downcast::<kind>: Some(scope), or None when downcast_ref fails
\* and expect("unexpected component type") panics.
AnyScopeDowncast(any, kind) ==
    IF any.state.ty = kind
    THEN Some([comp |-> kind, parent |-> any.parent, state |-> any.state.cell])
    ELSE None

\* ------------------------------------------------------------------------
\* ComponentUpdate payloads

Force == [tag |-> "Force", msgs |-> <<>>, props |-> "", node_ref |-> ""]
MessageOf(m) == [tag |-> "Message", msgs |-> <<m>>, props |-> "", node_ref |-> ""]
MessageBatch(ms) == [tag |-> "MessageBatch", msgs |-> ms, props |-> "", node_ref |-> ""]
PropertiesOf(p, r) == [tag |-> "Properties", msgs |-> <<>>, props |-> p, node_ref |-> r]

\* ------------------------------------------------------------------------
\* NodeRef (super::NodeRef): a reference holds a node or a forwarding link.

EmptyRef == [node |-> None, link |-> None]

NodeRefSet(r, ref, node) == [r EXCEPT ![ref] = [node |-> node, link |-> None]]

NodeRefLink(r, ref, other) ==
    IF ref = other THEN r
    ELSE [r EXCEPT ![ref] = [node |-> None, link |-> Some(other)]]

RECURSIVE Resolve(_, _, _)
Resolve(r, ref, fuel) ==
    IF IsSome(r[ref].node) THEN r[ref].node
    ELSE IF IsSome(r[ref].link) /\ fuel > 0
         THEN Resolve(r, Unwrap(r[ref].link), fuel - 1)
         ELSE None

NodeRefGet(r, ref) == Resolve(r, ref, Cardinality(NodeRefs))

\* ------------------------------------------------------------------------
\* The component under test (hooks of the Component trait)

\* What a unit does while it runs, in order: the hooks it invokes, the
\* calls to the diff/patch engine and the operations on node references.
Ev(op) == [op |-> op, msg |-> FALSE, props |-> "", ret |-> FALSE,
           first |-> FALSE, ref |-> "", to |-> "", tree |-> None]
EvUpdate(m, ret) == [Ev("update") EXCEPT !.msg = m, !.ret = ret]
EvChange(p, ret) == [Ev("change") EXCEPT !.props = p, !.ret = ret]
EvRender      == Ev("render")
EvRendered(f) == [Ev("rendered") EXCEPT !.first = f]
EvTeardown    == Ev("teardown")
EvApply(last) == [Ev("apply") EXCEPT !.tree = last]
EvDetach(t)   == [Ev("detach") EXCEPT !.tree = Some(t)]
EvSet(r)      == [Ev("set") EXCEPT !.ref = r]
EvLink(r, o)  == [Ev("link") EXCEPT !.ref = r, !.to = o]

Count(trace, op) == Cardinality({i \in DOMAIN trace : trace[i].op = op})

\* COMP::create(props, scope)
CompCreate(props) == [props |-> props, applied |-> 0]

\* COMP::update(msg): the instance counts the message; ShouldRender is msg.
CompUpdate(comp, msg) == [comp EXCEPT !.applied = @ + 1]
CompUpdateRet(comp, msg) == msg

\* COMP::change(props): stores the props; ShouldRender iff they differ.
CompChange(comp, props) == [comp EXCEPT !.props = props]
CompChangeRet(comp, props) == comp.props /= props

\* COMP::render(): the root of the tree depends on the props; ver tells
\* successive trees apart.
RootOf(props) ==
    CASE props = "P0" -> "tag"
      [] props = "P1" -> "comp"
      [] OTHER        -> "empty"
CompRender(comp, ver) == [root |-> RootOf(comp.props), ver |-> ver]

\* The tree handed to mount_in_place as ancestor, when there is one.
AncestorTree == [root |-> "tag", ver |-> 0]

\* VDiff::apply(parent_scope, element, None, last_root): a concrete node for
\* a tag, nothing for a nested component or an empty tree.
Apply(root, last_root) ==
    IF root.root = "tag" THEN Some(root.ver) ELSE None

\* ------------------------------------------------------------------------
\* The scheduler (crate::scheduler): three FIFO queues, one per class.

\* The part of the state the scope's methods and the units work on.
St == [cell |-> cell, refs |-> refs, updateQ |-> updateQ,
       renderedQ |-> renderedQ, destroyQ |-> destroyQ,
       borrowed |-> (pc = "unit"), panicked |-> panicked]

\* scheduler().push_comp(class, runnable)
push_comp(st, class, unit) ==
    CASE class = "Update"   -> [st EXCEPT !.updateQ = Append(@, unit)]
      [] class = "Rendered" -> [st EXCEPT !.renderedQ = Append(@, unit)]
      [] OTHER              -> [st EXCEPT !.destroyQ = Append(@, unit)]

\* The next unit the scheduler runs: FIFO within a class, Update work before
\* Rendered work, and Destroy work first, so that a unit that runs after
\* destroy() finds the component destroyed.
next_runnable ==
    IF destroyQ /= <<>> THEN Some([class |-> "Destroy", unit |-> Head(destroyQ)])
    ELSE IF updateQ /= <<>> THEN Some([class |-> "Update", unit |-> Head(updateQ)])
    ELSE IF renderedQ /= <<>> THEN Some([class |-> "Rendered", unit |-> Head(renderedQ)])
    ELSE None

\* ------------------------------------------------------------------------
\* The units.  A run yields the new state and the trace of what it did.

NoOp(st) == [st |-> st, trace |-> <<>>]

\* The fold step with its operands swapped, acc || update(msg): once acc is
\* true the hook is no longer invoked.
FoldStepShortCircuit(f, msg) ==
    IF f.acc THEN f
    ELSE [comp  |-> CompUpdate(f.comp, msg),
          acc   |-> CompUpdateRet(f.comp, msg),
          trace |-> Append(f.trace, EvUpdate(msg, CompUpdateRet(f.comp, msg)))]

\* One step of the fold over a batch: state.component.update(msg) || acc
FoldStep(f, msg) ==
    [comp  |-> CompUpdate(f.comp, msg),
     acc   |-> (CompUpdateRet(f.comp, msg) \/ f.acc),
     trace |-> Append(f.trace, EvUpdate(msg, CompUpdateRet(f.comp, msg)))]

\* messages.into_iter().fold(false, ...)
RECURSIVE FoldMessages(_, _)
FoldMessages(f, msgs) ==
    IF msgs = <<>> THEN f
    ELSE FoldMessages(FoldStep(f, Head(msgs)), Tail(msgs))

\* The Properties arm with the link made the wrong way round:
\* state.node_ref.link(node_ref).
MatchPropertiesReversed(state, r, update) ==
    [comp   |-> CompChange(state.component, update.props),
     should |-> CompChangeRet(state.component, update.props),
     refs   |-> NodeRefLink(r, state.node_ref, update.node_ref),
     trace  |-> <<EvLink(state.node_ref, update.node_ref),
                  EvChange(update.props,
                           CompChangeRet(state.component, update.props))>>]

\* The Properties arm that invokes the change hook first and links the
\* incoming reference only when the hook asks for a render.
MatchPropertiesLinkIfChanged(state, r, update) ==
    LET ret == CompChangeRet(state.component, update.props)
    IN [comp   |-> CompChange(state.component, update.props),
        should |-> ret,
        refs   |-> IF ret THEN NodeRefLink(r, update.node_ref, state.node_ref) ELSE r,
        trace  |-> <<EvChange(update.props, ret)>>
                   \o (IF ret THEN <<EvLink(update.node_ref, state.node_ref)>>
                       ELSE <<>>)]

\* UpdateComponent::run, the Properties arm: node_ref.link(state.node_ref),
\* then state.component.change(props).
MatchProperties(state, r, update) ==
    [comp   |-> CompChange(state.component, update.props),
     should |-> CompChangeRet(state.component, update.props),
     refs   |-> NodeRefLink(r, update.node_ref, state.node_ref),
     trace  |-> <<EvLink(update.node_ref, state.node_ref),
                  EvChange(update.props,
                           CompChangeRet(state.component, update.props))>>]

\* UpdateComponent::run, the match on the payload: the instance after it,
\* should_update, the node references and the trace.
MatchUpdate(state, r, update) ==
    CASE update.tag = "Force" ->
           [comp |-> state.component, should |-> TRUE, refs |-> r, trace |-> <<>>]
      [] update.tag = "Message" ->
           [comp   |-> CompUpdate(state.component, update.msgs[1]),
            should |-> CompUpdateRet(state.component, update.msgs[1]),
            refs   |-> r,
            trace  |-> <<EvUpdate(update.msgs[1],
                                  CompUpdateRet(state.component, update.msgs[1]))>>]
      [] update.tag = "MessageBatch" ->
           LET f == FoldMessages([comp |-> state.component, acc |-> FALSE,
                                  trace |-> <<>>], update.msgs)
           IN [comp |-> f.comp, should |-> f.acc, refs |-> r, trace |-> f.trace]
      [] OTHER -> MatchProperties(state, r, update)

\* The render branch without `state.rendered = false`.
RenderBranchKeepsRendered(state, r, ver) ==
    LET root == CompRender(state.component, ver)
        node == Apply(root, state.last_root)
    IN [state |-> [state EXCEPT !.last_root = Some(root)],
        refs  |-> IF IsSome(node) THEN NodeRefSet(r, state.node_ref, node)
                  ELSE IF root.root = "comp"
                       THEN NodeRefLink(r, state.node_ref, ChildRef)
                       ELSE r,
        trace |-> <<EvRender, EvApply(state.last_root)>>
                  \o (IF IsSome(node) THEN <<EvSet(state.node_ref)>>
                      ELSE IF root.root = "comp"
                           THEN <<EvLink(state.node_ref, ChildRef)>>
                           ELSE <<>>)]

\* The render branch without `state.last_root = Some(root)`: the previous
\* tree was taken and nothing is put back.
RenderBranchDropsRoot(state, r, ver) ==
    LET root == CompRender(state.component, ver)
        last_root == state.last_root
        node == Apply(root, last_root)
    IN [state |-> [state EXCEPT !.rendered = FALSE, !.last_root = None],
        refs  |-> IF IsSome(node) THEN NodeRefSet(r, state.node_ref, node)
                  ELSE IF root.root = "comp"
                       THEN NodeRefLink(r, state.node_ref, ChildRef)
                       ELSE r,
        trace |-> <<EvRender, EvApply(last_root)>>
                  \o (IF IsSome(node) THEN <<EvSet(state.node_ref)>>
                      ELSE IF root.root = "comp"
                           THEN <<EvLink(state.node_ref, ChildRef)>>
                           ELSE <<>>)]

\* The render branch without the `else if let VNode::VComp(child)` arm: a
\* nested component at the root leaves the reference as it was.
RenderBranchNoChildLink(state, r, ver) ==
    LET root == CompRender(state.component, ver)
        last_root == state.last_root
        node == Apply(root, last_root)
    IN [state |-> [state EXCEPT !.rendered = FALSE, !.last_root = Some(root)],
        refs  |-> IF IsSome(node) THEN NodeRefSet(r, state.node_ref, node)
                  ELSE r,
        trace |-> <<EvRender, EvApply(last_root)>>
                  \o (IF IsSome(node) THEN <<EvSet(state.node_ref)>> ELSE <<>>)]

\* UpdateComponent::run, the render branch (should_update is true).
RenderBranch(state, r, ver) ==
    LET root == CompRender(state.component, ver)
        last_root == state.last_root
        node == Apply(root, last_root)
    IN [state |-> [state EXCEPT !.rendered = FALSE, !.last_root = Some(root)],
        refs  |-> IF IsSome(node) THEN NodeRefSet(r, state.node_ref, node)
                  ELSE IF root.root = "comp"
                       THEN NodeRefLink(r, state.node_ref, ChildRef)
                       ELSE r,
        trace |-> <<EvRender, EvApply(last_root)>>
                  \o (IF IsSome(node) THEN <<EvSet(state.node_ref)>>
                      ELSE IF root.root = "comp"
                           THEN <<EvLink(state.node_ref, ChildRef)>>
                           ELSE <<>>)]

\* UpdateComponent::run with `state.rendered = false` moved ahead of the
\* `if should_update` test.
UpdateComponent_run_resets_flag(st, u, ver) ==
    IF ~IsSome(st.cell) THEN NoOp(st)
    ELSE LET state == Unwrap(st.cell)
             m == MatchUpdate(state, st.refs, u.update)
             state1 == [state EXCEPT !.component = m.comp, !.rendered = FALSE]
         IN IF m.should
            THEN LET b == RenderBranch(state1, m.refs, ver)
                 IN [st    |-> [st EXCEPT !.cell = Some(b.state), !.refs = b.refs],
                     trace |-> m.trace \o b.trace]
            ELSE [st    |-> [st EXCEPT !.cell = Some(state1), !.refs = m.refs],
                  trace |-> m.trace]

\* UpdateComponent::run; ver numbers the tree a render would produce.
UpdateComponent_run(st, u, ver) ==
    IF ~IsSome(st.cell) THEN NoOp(st)
    ELSE LET state == Unwrap(st.cell)
             m == MatchUpdate(state, st.refs, u.update)
             state1 == [state EXCEPT !.component = m.comp]
         IN IF m.should
            THEN LET b == RenderBranch(state1, m.refs, ver)
                 IN [st    |-> [st EXCEPT !.cell = Some(b.state), !.refs = b.refs],
                     trace |-> m.trace \o b.trace]
            ELSE [st    |-> [st EXCEPT !.cell = Some(state1), !.refs = m.refs],
                  trace |-> m.trace]

\* RenderedComponent::run without the `!state.rendered` guard.
RenderedComponent_run_unguarded(st, u) ==
    IF ~IsSome(st.cell) THEN NoOp(st)
    ELSE [st    |-> [st EXCEPT !.cell = Some([Unwrap(st.cell) EXCEPT !.rendered = TRUE])],
          trace |-> <<EvRendered(u.first_render)>>]

\* RenderedComponent::run
RenderedComponent_run(st, u) ==
    IF ~IsSome(st.cell) THEN NoOp(st)
    ELSE LET state == Unwrap(st.cell)
         IN IF ~state.rendered
            THEN [st    |-> [st EXCEPT !.cell = Some([state EXCEPT !.rendered = TRUE])],
                  trace |-> <<EvRendered(u.first_render)>>]
            ELSE NoOp(st)

\* DestroyComponent::run with as_mut() in place of take(): the record stays.
DestroyComponent_run_as_mut(st, u) ==
    IF ~IsSome(st.cell) THEN NoOp(st)
    ELSE [st    |-> st,
          trace |-> <<EvTeardown>>
                    \o (IF IsSome(Unwrap(st.cell).last_root)
                        THEN <<EvDetach(Unwrap(Unwrap(st.cell).last_root))>>
                        ELSE <<>>)]

\* DestroyComponent::run that detaches the previous tree before it drops
\* the instance.
DestroyComponent_run_detach_first(st, u) ==
    IF ~IsSome(st.cell) THEN NoOp(st)
    ELSE LET state == Unwrap(st.cell)
         IN [st    |-> [st EXCEPT !.cell = None],
             trace |-> (IF IsSome(state.last_root)
                        THEN <<EvDetach(Unwrap(state.last_root))>>
                        ELSE <<>>)
                       \o <<EvTeardown>>]

\* DestroyComponent::run
DestroyComponent_run(st, u) ==
    IF ~IsSome(st.cell) THEN NoOp(st)
    ELSE LET state == Unwrap(st.cell)
         IN [st    |-> [st EXCEPT !.cell = None],
             trace |-> <<EvTeardown>>
                       \o (IF IsSome(state.last_root)
                           THEN <<EvDetach(Unwrap(state.last_root))>>
                           ELSE <<>>)]

\* ------------------------------------------------------------------------
\* Scope: the scheduling methods.  id and src are ghost fields of a unit:
\* the number of the call that made it and where the call came from.

\* Scope::rendered that treats an empty cell as a contract violation and
\* panics instead of enqueueing.
Scope_rendered_checked(st, scope, first_render, id, src) ==
    IF ~st.borrowed /\ ~IsSome(st.cell)
    THEN [st EXCEPT !.panicked = TRUE]
    ELSE push_comp(st, "Rendered",
                   [state |-> scope.state, first_render |-> first_render,
                    id |-> id, src |-> src])

\* Scope::rendered
Scope_rendered(st, scope, first_render, id, src) ==
    push_comp(st, "Rendered",
              [state |-> scope.state, first_render |-> first_render,
               id |-> id, src |-> src])

\* Scope::update that schedules the Rendered unit only for a mounted
\* component.
Scope_update_if_mounted(st, scope, update, first_update, id, src) ==
    LET st1 == push_comp(st, "Update",
                         [state |-> scope.state, update |-> update,
                          id |-> id, src |-> src])
    IN IF IsSome(st.cell)
       THEN push_comp(st1, "Rendered",
                      [state |-> scope.state, first_render |-> first_update,
                       id |-> id, src |-> src])
       ELSE st1

\* Scope::update without the call of rendered(first_update).
Scope_update_no_rendered(st, scope, update, first_update, id, src) ==
    push_comp(st, "Update",
              [state |-> scope.state, update |-> update,
               id |-> id, src |-> src])

\* Scope::update
Scope_update(st, scope, update, first_update, id, src) ==
    Scope_rendered(
        push_comp(st, "Update",
                  [state |-> scope.state, update |-> update,
                   id |-> id, src |-> src]),
        scope, first_update, id, src)

\* Scope::destroy that builds the unit and never pushes it.
Scope_destroy_lost(st, scope, id, src) == st

\* Scope::destroy
Scope_destroy(st, scope, id, src) ==
    push_comp(st, "Destroy", [state |-> scope.state, id |-> id, src |-> src])

\* send_message that applies the message at once instead of scheduling it:
\* it borrows the cell, which panics while a unit holds the borrow.
Scope_send_message_sync(st, scope, msg, id, src) ==
    IF st.borrowed
    THEN [st EXCEPT !.panicked = TRUE]
    ELSE UpdateComponent_run(st, [state |-> scope.state, update |-> MessageOf(msg),
                                  id |-> id, src |-> src], 0).st

\* Scope::send_message (and the closures of callback / callback_once)
Scope_send_message(st, scope, msg, id, src) ==
    Scope_update(st, scope, MessageOf(msg), FALSE, id, src)

\* Scope::send_message_batch (and the closure of batch_callback)
Scope_send_message_batch(st, scope, messages, id, src) ==
    Scope_update(st, scope, MessageBatch(messages), FALSE, id, src)

\* ComponentState::new that builds the record as already rendered.
ComponentState_new_rendered(element, ancestor, node_ref, scope, props) ==
    [element   |-> element,
     node_ref  |-> node_ref,
     scope     |-> scope,
     component |-> CompCreate(props),
     last_root |-> ancestor,
     rendered  |-> TRUE]

\* ComponentState::new
ComponentState_new(element, ancestor, node_ref, scope, props) ==
    [element   |-> element,
     node_ref  |-> node_ref,
     scope     |-> scope,
     component |-> CompCreate(props),
     last_root |-> ancestor,
     rendered  |-> FALSE]

\* mount_in_place that installs the record and schedules no Force update.
Scope_mount_in_place_no_force(st, scope, element, ancestor, node_ref, props) ==
    [st EXCEPT !.cell = Some(ComponentState_new(element, ancestor, node_ref,
                                                scope, props))]

\* Scope::mount_in_place, after ComponentState::new has returned: the cell
\* is borrowed mutably for the assignment, then the Force update is scheduled.
Scope_mount_in_place(st, scope, element, ancestor, node_ref, props) ==
    IF st.borrowed
    THEN [st EXCEPT !.panicked = TRUE]
    ELSE Scope_update(
             [st EXCEPT !.cell = Some(ComponentState_new(element, ancestor,
                                                         node_ref, scope, props))],
             scope, Force, TRUE, 0, "mount")

\* ------------------------------------------------------------------------
\* The state machine

Commit(st) ==
    /\ cell' = st.cell
    /\ refs' = st.refs
    /\ updateQ' = st.updateQ
    /\ renderedQ' = st.renderedQ
    /\ destroyQ' = st.destroyQ
    /\ panicked' = st.panicked

NoCall == [op |-> "none", at |-> "idle", afterDestroy |-> FALSE, id |-> 0]
NoRun == [class |-> "none", unit |-> None, empty |-> TRUE, trace |-> <<>>]

Init ==
    /\ cell = None
    /\ refs = [r \in NodeRefs |-> EmptyRef]
    /\ updateQ = <<>>
    /\ renderedQ = <<>>
    /\ destroyQ = <<>>
    /\ pc = "idle"
    /\ running = None
    /\ panicked = FALSE
    /\ parentScope = None
    /\ downcasted = [kind |-> "", result |-> None]
    /\ calls = 0
    /\ mountCalled = FALSE
    /\ destroyCalled = FALSE
    /\ lastCall = NoCall
    /\ lastRun = NoRun
    /\ hist = [renders |-> 0, posts |-> 0, teardowns |-> 0, forceRenders |-> 0,
               extUpdates |-> 0, renderSincePost |-> FALSE, destroyed |-> FALSE,
               changed |-> FALSE, direct |-> FALSE]
    /\ pass = [renders |-> 0, posts |-> 0, clean |-> TRUE, draining |-> FALSE,
               flag0 |-> FALSE]

\* A pass: the units enqueued while the scheduler is at rest, then their
\* drain.  A call that finds the scheduler at rest opens a pass; a call made
\* once the drain has begun makes the pass unclean.
Quiescent ==
    pc /= "unit" /\ updateQ = <<>> /\ renderedQ = <<>> /\ destroyQ = <<>>

PassOnCall ==
    IF Quiescent
    THEN [renders |-> 0, posts |-> 0, clean |-> TRUE, draining |-> FALSE,
          flag0 |-> (IsSome(cell) /\ Unwrap(cell).rendered)]
    ELSE IF pass.draining THEN [pass EXCEPT !.clean = FALSE]
    ELSE pass

Call(op) == [op |-> op, at |-> pc, afterDestroy |-> destroyCalled, id |-> calls + 1]

\* mount_in_place is entered: ComponentState::new runs the create hook,
\* which holds a clone of the scope; the cell is not touched yet (the right
\* side of the assignment is evaluated before borrow_mut).  mount_in_place
\* takes the scope by value: a scope is mounted once, and a scope whose
\* clone was destroyed is not mounted afterwards.
MountBegin(ancestor) ==
    /\ pc = "idle" /\ ~panicked /\ ~mountCalled /\ ~destroyCalled
    /\ pc' = "create"
    /\ running' = Some([class |-> "Mount", unit |-> [ancestor |-> ancestor]])
    /\ mountCalled' = TRUE
    /\ UNCHANGED << cell, refs, updateQ, renderedQ, destroyQ, panicked,
                    parentScope, downcasted, calls, destroyCalled, lastCall,
                    lastRun, hist, pass >>

\* The create hook has returned: the record is installed and the Force
\* update scheduled.
MountEnd ==
    /\ pc = "create" /\ ~panicked
    /\ Commit(Scope_mount_in_place(St, TheScope, "anchor",
                                   Unwrap(running).unit.ancestor, OwnRef,
                                   InitialProps))
    /\ pc' = "idle"
    /\ running' = None
    /\ lastCall' = [Call("mount_in_place") EXCEPT !.id = 0]
    /\ pass' = PassOnCall
    /\ UNCHANGED << parentScope, downcasted, calls, mountCalled, destroyCalled,
                    lastRun, hist >>

\* The scopes through which work is scheduled: the scope, its clones (the
\* create hook's, the callbacks') and the result of a downcast.
Scopes == {TheScope} \cup {downcasted.result[i] : i \in DOMAIN downcasted.result}

CallFrame ==
    /\ calls' = calls + 1
    /\ pass' = PassOnCall
    /\ UNCHANGED << pc, running, parentScope, downcasted, mountCalled, lastRun, hist >>

\* send_message, or a callback / callback_once closure being invoked: from
\* outside, from the create hook or from a hook of a running unit.
SendMessage(scope, msg) ==
    /\ ~panicked /\ mountCalled /\ calls < MaxCalls
    /\ Commit(Scope_send_message(St, scope, msg, calls + 1, pc))
    /\ lastCall' = Call("send_message")
    /\ CallFrame /\ UNCHANGED destroyCalled

\* send_message_batch, or a batch_callback closure being invoked.
SendMessageBatch(scope, messages) ==
    /\ ~panicked /\ mountCalled /\ calls < MaxCalls
    /\ Commit(Scope_send_message_batch(St, scope, messages, calls + 1, pc))
    /\ lastCall' = Call("send_message_batch")
    /\ CallFrame /\ UNCHANGED destroyCalled

\* update(Properties(props, node_ref), false): the parent re-renders.
UpdateProperties(scope, props) ==
    /\ ~panicked /\ pc = "idle" /\ mountCalled /\ calls < MaxCalls
    /\ Commit(Scope_update(St, scope, PropertiesOf(props, NewRef), FALSE,
                           calls + 1, pc))
    /\ lastCall' = Call("update")
    /\ CallFrame /\ UNCHANGED destroyCalled

\* rendered(first_render) called directly.
ScheduleRendered(scope, first_render) ==
    /\ ~panicked /\ pc = "idle" /\ mountCalled /\ calls < MaxCalls
    /\ Commit(Scope_rendered(St, scope, first_render, calls + 1, pc))
    /\ lastCall' = Call("rendered")
    /\ calls' = calls + 1
    /\ pass' = PassOnCall
    /\ hist' = [hist EXCEPT !.direct = @ \/ first_render]
    /\ UNCHANGED << pc, running, parentScope, downcasted, mountCalled, lastRun,
                    destroyCalled >>

\* destroy(), called between units on the scope or a clone of it, mounted
\* or not yet mounted.
Destroy(scope) ==
    /\ ~panicked /\ pc = "idle" /\ calls < MaxCalls
    /\ Commit(Scope_destroy(St, scope, calls + 1, pc))
    /\ lastCall' = Call("destroy")
    /\ destroyCalled' = TRUE
    /\ CallFrame

\* A descendant downcasts the handle the last render gave it.
Downcast(kind) ==
    /\ ~panicked /\ pc = "idle" /\ IsSome(parentScope)
    /\ LET d == AnyScopeDowncast(Unwrap(parentScope), kind)
       IN /\ downcasted' = [kind |-> kind, result |-> d]
          /\ panicked' = ~IsSome(d)
    /\ UNCHANGED << cell, refs, updateQ, renderedQ, destroyQ, pc, running,
                    parentScope, calls, mountCalled, destroyCalled, lastCall,
                    lastRun, hist, pass >>

\* The node a nested component at the root resolves its reference to.
ChildNode == Some(0)

\* The nested component at the root of the rendered tree renders, between
\* units of this component, and sets its own node reference.
ChildResolves ==
    /\ ~panicked /\ pc = "idle" /\ IsSome(cell)
    /\ IsSome(Unwrap(cell).last_root)
    /\ Unwrap(Unwrap(cell).last_root).root = "comp"
    /\ refs[ChildRef] = EmptyRef
    /\ refs' = NodeRefSet(refs, ChildRef, ChildNode)
    /\ UNCHANGED << cell, updateQ, renderedQ, destroyQ, pc, running, panicked,
                    parentScope, downcasted, calls, mountCalled, destroyCalled,
                    lastCall, lastRun, hist, pass >>

\* The scheduler takes the next unit; the unit borrows the cell.
Start ==
    /\ ~panicked /\ pc = "idle" /\ IsSome(next_runnable)
    /\ running' = next_runnable
    /\ pc' = "unit"
    /\ LET class == Unwrap(next_runnable).class
       IN /\ destroyQ' = IF class = "Destroy" THEN Tail(destroyQ) ELSE destroyQ
          /\ updateQ' = IF class = "Update" THEN Tail(updateQ) ELSE updateQ
          /\ renderedQ' = IF class = "Rendered" THEN Tail(renderedQ) ELSE renderedQ
    /\ pass' = [pass EXCEPT !.draining = TRUE]
    /\ UNCHANGED << cell, refs, panicked, parentScope, downcasted, calls,
                    mountCalled, destroyCalled, lastCall, lastRun, hist >>

HistAfter(h, class, u, trace) ==
    [renders         |-> h.renders + Count(trace, "render"),
     posts           |-> h.posts + Count(trace, "rendered"),
     teardowns       |-> h.teardowns + Count(trace, "teardown"),
     forceRenders    |-> h.forceRenders
                         + (IF u.src = "mount" THEN Count(trace, "render") ELSE 0),
     extUpdates      |-> h.extUpdates
                         + (IF u.src /= "create" THEN Count(trace, "update") ELSE 0),
     renderSincePost |-> IF Count(trace, "render") > 0 THEN TRUE
                         ELSE IF Count(trace, "rendered") > 0 THEN FALSE
                         ELSE h.renderSincePost,
     destroyed       |-> (h.destroyed \/ Count(trace, "teardown") > 0),
     changed         |-> (h.changed \/ Count(trace, "change") > 0),
     direct          |-> h.direct]

\* The running unit completes and releases the cell.
Finish(class, out) ==
    /\ Commit(out.st)
    /\ pc' = "idle"
    /\ running' = None
    /\ lastRun' = [class |-> class, unit |-> Some(Unwrap(running).unit),
                   empty |-> ~IsSome(cell), trace |-> out.trace]
    /\ hist' = HistAfter(hist, class, Unwrap(running).unit, out.trace)
    /\ pass' = [pass EXCEPT !.renders = @ + Count(out.trace, "render"),
                            !.posts = @ + Count(out.trace, "rendered")]
    \* root.apply(&state.scope.clone().into(), ...) hands the handle over
    /\ parentScope' = IF Count(out.trace, "apply") > 0
                      THEN Some(AnyScopeFrom(Unwrap(cell).scope))
                      ELSE parentScope
    /\ UNCHANGED << downcasted, calls, mountCalled, destroyCalled, lastCall >>

RunUpdate ==
    /\ ~panicked /\ pc = "unit" /\ Unwrap(running).class = "Update"
    /\ \E out \in {UpdateComponent_run(St, Unwrap(running).unit, hist.renders + 1)} :
           Finish("Update", out)

RunRendered ==
    /\ ~panicked /\ pc = "unit" /\ Unwrap(running).class = "Rendered"
    /\ \E out \in {RenderedComponent_run(St, Unwrap(running).unit)} :
           Finish("Rendered", out)

RunDestroy ==
    /\ ~panicked /\ pc = "unit" /\ Unwrap(running).class = "Destroy"
    /\ \E out \in {DestroyComponent_run(St, Unwrap(running).unit)} :
           Finish("Destroy", out)

Next ==
    \/ \E a \in {None, Some(AncestorTree)} : MountBegin(a)
    \/ MountEnd
    \/ \E s \in Scopes, m \in Message : SendMessage(s, m)
    \/ \E s \in Scopes, ms \in Batches : SendMessageBatch(s, ms)
    \/ \E s \in Scopes, p \in Properties : UpdateProperties(s, p)
    \/ \E s \in Scopes, f \in BOOLEAN : ScheduleRendered(s, f)
    \/ \E s \in Scopes : Destroy(s)
    \/ \E k \in Kinds : Downcast(k)
    \/ ChildResolves
    \/ Start
    \/ RunUpdate
    \/ RunRendered
    \/ RunDestroy

Spec == Init /\ [][Next]_vars

\* The scheduler drains: a unit that can be taken is taken, a unit that was
\* taken runs to completion.
Drain == Start \/ RunUpdate \/ RunRendered \/ RunDestroy

Fairness == WF_vars(Drain)

FairSpec == Init /\ [][Next]_vars /\ Fairness

\* ------------------------------------------------------------------------
\* Properties

\* A step in which a unit completes / a scope call is made.
UnitCompletes == pc = "unit" /\ pc' = "idle"
CallMade == calls' = calls + 1

\* C1: once a Destroy unit has executed on the mounted component the cell is
\* empty in every later state, and every unit that then runs on the empty
\* cell is a complete no-op: it invokes no hook, does not call the
\* diff/patch engine, touches no node reference and does not fail.
C1_StaleUnitsAreNoOps ==
    [][ /\ (hist.destroyed => cell' = None)
        /\ ((UnitCompletes /\ hist.destroyed)
              => /\ lastRun'.empty
                 /\ lastRun'.trace = <<>>
                 /\ cell' = None
                 /\ refs' = refs
                 /\ ~panicked') ]_vars

\* An Update unit enqueued by a call made after destroy() has run on the
\* destroyed component.
C1_Witness ==
    /\ hist.destroyed
    /\ lastRun.class = "Update"
    /\ lastRun.empty
    /\ lastCall.afterDestroy
    /\ Unwrap(lastRun.unit).id = lastCall.id

C3_PostRenderOncePerRender ==
    [][ hist'.posts > hist.posts
          => (hist'.posts = hist.posts + 1 /\ hist.renderSincePost) ]_vars

\* A Rendered unit has run on the live component without invoking the hook,
\* which an earlier Rendered unit has invoked for this render.
C3_Witness ==
    /\ lastRun.class = "Rendered"
    /\ ~lastRun.empty
    /\ lastRun.trace = <<>>
    /\ hist.posts = 1
    /\ hist.renders = 1

IsUpdateEv(e) == e.op = "update"

\* C4: an Update unit with MessageBatch(ms) on a mounted component invokes
\* the update hook once per message of ms, in order and before anything
\* else, renders iff one of the results is true, and at most once.
C4_BatchAppliesEveryMessage ==
    (/\ lastRun.class = "Update"
     /\ ~lastRun.empty
     /\ Unwrap(lastRun.unit).update.tag = "MessageBatch")
    => LET ms == Unwrap(lastRun.unit).update.msgs
           tr == lastRun.trace
       IN /\ Len(SelectSeq(tr, IsUpdateEv)) = Len(ms)
          /\ Len(tr) >= Len(ms)
          /\ \A i \in 1..Len(ms) : tr[i].op = "update" /\ tr[i].msg = ms[i]
          /\ Count(tr, "render") =
                (IF \E i \in 1..Len(ms) : tr[i].ret THEN 1 ELSE 0)

\* The batch [true, false] has run on the mounted component.
C4_Witness ==
    /\ lastRun.class = "Update"
    /\ ~lastRun.empty
    /\ Unwrap(lastRun.unit).update = MessageBatch(<<TRUE, FALSE>>)
    /\ Count(lastRun.trace, "update") = 2

\* C5 as stated: when the update hook is first invoked for a message sent
\* after mount_in_place, the render hook has been invoked exactly once.
C5_ExactlyOneRenderBeforeFirstMessage ==
    [][ (hist.extUpdates = 0 /\ hist'.extUpdates > 0) => hist.renders = 1 ]_vars

\* C5 (amended): the mount's Force update renders exactly once, and it has
\* done so whenever the update hook is invoked for a message sent after
\* mount_in_place.
C5_ForceRenderBeforeMessages ==
    [][ /\ hist'.forceRenders <= 1
        /\ (hist'.extUpdates > hist.extUpdates => hist.forceRenders = 1) ]_vars

\* A message sent after the mount has been applied, after more than one
\* render.
C5_Witness ==
    /\ hist.extUpdates > 0
    /\ hist.forceRenders = 1
    /\ hist.renders > 1
    /\ lastRun.class = "Update"
    /\ Count(lastRun.trace, "update") > 0

\* C6: in a pass whose units were all enqueued before its drain began, on a
\* component that is still mounted at its end, the post-render hook is
\* invoked exactly once if an Update unit rendered, and not at all if none
\* rendered and the rendered flag was already true.
C6_OnePostRenderPerPass ==
    (Quiescent /\ pc = "idle" /\ pass.clean /\ pass.draining /\ IsSome(cell))
    => /\ (pass.renders >= 1 => pass.posts = 1)
       /\ ((pass.renders = 0 /\ pass.flag0) => pass.posts = 0)

\* mount, send_message(true), send_message_batch([false, true]) drained as
\* one pass: three renders, one post-render invocation.
C6_Witness ==
    /\ Quiescent /\ pc = "idle" /\ pass.clean /\ IsSome(cell)
    /\ pass.renders = 3
    /\ pass.posts = 1
    /\ lastRun.class = "Rendered"
    /\ lastCall.op = "send_message_batch"

\* A call that schedules work: everything but destroy().
SchedulesWork == CallMade /\ lastCall'.op /= "destroy"

\* C7 as stated: scheduling work on a scope after destroy() has been called
\* fails at the call and enqueues nothing.
C7_FailsLoudlyAfterDestroy ==
    [][ (SchedulesWork /\ destroyCalled)
          => (panicked' /\ updateQ' = updateQ /\ renderedQ' = renderedQ) ]_vars

\* C7 (amended): scheduling work on a scope after destroy() has been called
\* does not fail: the call enqueues its units like any other call.
C7_EnqueuesAfterDestroy ==
    [][ (SchedulesWork /\ destroyCalled)
          => /\ ~panicked'
             /\ Len(renderedQ') = Len(renderedQ) + 1
             /\ Len(updateQ') =
                  Len(updateQ) + (IF lastCall'.op = "rendered" THEN 0 ELSE 1) ]_vars

\* A message sent after the Destroy unit has emptied the cell is queued.
C7_Witness ==
    /\ lastCall.afterDestroy
    /\ lastCall.op = "send_message"
    /\ hist.destroyed
    /\ Len(updateQ) = 1
    /\ updateQ[1].id = lastCall.id
    /\ ~panicked

\* A message is sent (send_message, send_message_batch or a callback).
MessageSent == CallMade /\ lastCall'.op \in {"send_message", "send_message_batch"}

\* C8: sending a message never reads or changes the state cell: it appends
\* one Update unit and one Rendered unit and nothing else, also when the
\* call comes from a hook of a running unit, and it does not fail.
C8_SendOnlyEnqueues ==
    [][ MessageSent
          => /\ cell' = cell
             /\ refs' = refs
             /\ ~panicked'
             /\ pc' = pc /\ running' = running
             /\ Len(updateQ') = Len(updateQ) + 1
             /\ SubSeq(updateQ', 1, Len(updateQ)) = updateQ
             /\ Len(renderedQ') = Len(renderedQ) + 1
             /\ SubSeq(renderedQ', 1, Len(renderedQ)) = renderedQ
             /\ destroyQ' = destroyQ ]_vars

\* A message was sent from inside a running Update unit of the mounted
\* component, which still holds the borrow of the cell.
C8_Witness ==
    /\ lastCall.op = "send_message"
    /\ lastCall.at = "unit"
    /\ pc = "unit"
    /\ Unwrap(running).class = "Update"
    /\ IsSome(cell)
    /\ Len(updateQ) > 0
    /\ updateQ[Len(updateQ)].id = lastCall.id

Last(q) == q[Len(q)]

\* C9: every update call appends an Update unit with its payload and then
\* a Rendered unit with first_render = first_update, both on the scope's
\* cell, whether or not the cell is empty (send_message and
\* send_message_batch with first_update = false, mount_in_place with Force
\* and true); and a Rendered unit never starts while the Update unit it was
\* paired with is still queued.
C9_UpdateEnqueuesPair ==
    [][ /\ (CallMade /\ lastCall'.op \in {"send_message", "send_message_batch", "update"})
             => /\ Len(updateQ') = Len(updateQ) + 1
                /\ Len(renderedQ') = Len(renderedQ) + 1
                /\ destroyQ' = destroyQ
                /\ updateQ' = Append(updateQ, Last(updateQ'))
                /\ renderedQ' = Append(renderedQ, Last(renderedQ'))
                /\ Last(updateQ').state = TheScope.state
                /\ Last(updateQ').id = calls'
                /\ Last(updateQ').update.tag
                     = (CASE lastCall'.op = "send_message" -> "Message"
                          [] lastCall'.op = "send_message_batch" -> "MessageBatch"
                          [] OTHER -> "Properties")
                /\ Last(renderedQ') = [state |-> TheScope.state, first_render |-> FALSE,
                                       id |-> calls', src |-> pc]
        /\ (pc = "create" /\ pc' = "idle")
             => /\ updateQ' = Append(updateQ, [state |-> TheScope.state, update |-> Force,
                                              id |-> 0, src |-> "mount"])
                /\ renderedQ' = Append(renderedQ, [state |-> TheScope.state,
                                                  first_render |-> TRUE,
                                                  id |-> 0, src |-> "mount"])
        /\ (pc = "idle" /\ pc' = "unit" /\ Unwrap(running').class = "Rendered")
             => \A i \in 1..Len(updateQ') :
                    updateQ'[i].id /= Unwrap(running').unit.id ]_vars

\* A message was sent on the destroyed component (the cell is empty): both
\* units are queued.
C9_Witness ==
    /\ lastCall.op = "send_message"
    /\ cell = None
    /\ hist.destroyed
    /\ updateQ /= <<>> /\ renderedQ /= <<>>
    /\ Last(updateQ).id = lastCall.id
    /\ Last(renderedQ).id = lastCall.id

\* C10: a downcast of the handle built from the scope yields a scope iff
\* the requested kind is the scope's; that scope has the same state cell and
\* the same parent; any other kind panics.
C10_DowncastChecksKind ==
    downcasted.kind /= ""
    => /\ IsSome(downcasted.result) <=> downcasted.kind = TheScope.comp
       /\ IsSome(downcasted.result)
            => /\ Unwrap(downcasted.result).state = TheScope.state
               /\ Unwrap(downcasted.result).parent = TheScope.parent
               /\ Unwrap(downcasted.result).comp = TheScope.comp
       /\ ~IsSome(downcasted.result) => panicked

\* The downcast succeeded and a message sent through its result is queued
\* for the component.
C10_Witness ==
    /\ IsSome(downcasted.result)
    /\ downcasted.kind = COMP
    /\ lastCall.op = "send_message"
    /\ updateQ /= <<>>
    /\ Last(updateQ).state = CellId

\* C11: once an Update unit with Properties(props, newRef) has run on the
\* mounted component, newRef and the record's node reference resolve to the
\* same node (or are both unresolved), whether the node was set before or
\* after the link, by a render or through the nested component's reference.
C11_LinkedRefsResolveAlike ==
    hist.changed => NodeRefGet(refs, NewRef) = NodeRefGet(refs, OwnRef)

\* newRef resolves through the record's reference and the nested
\* component's reference, which was set after the link was made.
C11_Witness ==
    /\ hist.changed
    /\ refs[NewRef].link = Some(OwnRef)
    /\ refs[OwnRef].link = Some(ChildRef)
    /\ NodeRefGet(refs, NewRef) = ChildNode

\* mount_in_place returns.
MountReturns == pc = "create" /\ pc' = "idle"

\* mount_in_place has returned.
Mounted == mountCalled /\ pc /= "create"

\* C12: mount_in_place works synchronously and once: while the create hook
\* runs the cell is still empty; on return the cell holds a record with the
\* instance the create hook built from the initial properties, the scope,
\* rendered = false and the tree passed in as previous tree, and exactly one
\* Update(Force) unit and then one Rendered(first_render = true) unit have
\* been enqueued.  The cell is non-empty from that return until a Destroy
\* unit has executed, and empty before the mount and after that Destroy.
C12_MountInstallsRecordOnce ==
    /\ [](pc = "create" => cell = None)
    /\ [](IsSome(cell) <=> (Mounted /\ ~hist.destroyed))
    /\ [][ MountReturns
             => /\ cell = None
                /\ cell' = Some([element   |-> "anchor",
                                 node_ref  |-> OwnRef,
                                 scope     |-> TheScope,
                                 component |-> CompCreate(InitialProps),
                                 last_root |-> Unwrap(running).unit.ancestor,
                                 rendered  |-> FALSE])
                /\ Len(updateQ') = Len(updateQ) + 1
                /\ Len(renderedQ') = Len(renderedQ) + 1
                /\ Last(updateQ').update = Force
                /\ Last(renderedQ').first_render = TRUE
                /\ \A i \in 1..Len(updateQ) : updateQ'[i] = updateQ[i]
                /\ \A i \in 1..Len(renderedQ) : renderedQ'[i] = renderedQ[i]
                /\ destroyQ' = destroyQ /\ refs' = refs ]_vars

\* mount_in_place has just returned with a previous tree passed in, after
\* the create hook sent a message: the record is installed unrendered and
\* the Force update is queued behind the message.
C12_Witness ==
    /\ lastCall.op = "mount_in_place"
    /\ IsSome(cell)
    /\ Unwrap(cell).last_root = Some(AncestorTree)
    /\ ~Unwrap(cell).rendered
    /\ Len(updateQ) = 2 /\ updateQ[2].update = Force
    /\ Len(renderedQ) = 2 /\ renderedQ[2].first_render

\* An Update unit completes on a non-empty cell.
UpdateRuns ==
    /\ UnitCompletes
    /\ Unwrap(running).class = "Update"
    /\ IsSome(cell)

\* should_update as the hooks of the unit returned it: true for Force, the
\* disjunction of the update hook's returns, the change hook's return.
ShouldUpdate(u, tr) ==
    \/ u.update.tag = "Force"
    \/ \E i \in 1..Len(tr) : tr[i].op \in {"update", "change"} /\ tr[i].ret

\* C13: an Update unit whose should_update is false leaves the rendered
\* flag, the previous tree and the node the record's reference resolves to
\* as they were, and invokes neither the render hook nor the diff/patch.
C13_NoRenderLeavesRecord ==
    [][ (UpdateRuns /\ ~ShouldUpdate(Unwrap(running).unit, lastRun'.trace))
          => /\ IsSome(cell')
             /\ Unwrap(cell').rendered = Unwrap(cell).rendered
             /\ Unwrap(cell').last_root = Unwrap(cell).last_root
             /\ Unwrap(cell').node_ref = Unwrap(cell).node_ref
             /\ NodeRefGet(refs', OwnRef) = NodeRefGet(refs, OwnRef)
             /\ Count(lastRun'.trace, "render") = 0
             /\ Count(lastRun'.trace, "apply") = 0
             /\ Count(lastRun'.trace, "set") = 0 ]_vars

\* A Properties update with unchanged properties has run on a rendered,
\* resolved component: the change hook returned false and the record still
\* counts as rendered.
C13_Witness ==
    /\ lastRun.class = "Update" /\ ~lastRun.empty
    /\ lastRun.trace = <<EvLink(NewRef, OwnRef), EvChange(InitialProps, FALSE)>>
    /\ IsSome(cell)
    /\ Unwrap(cell).rendered
    /\ IsSome(Unwrap(cell).last_root)
    /\ IsSome(NodeRefGet(refs, OwnRef))

\* An Update unit completes on a non-empty cell with should_update true.
RenderingUpdateRuns ==
    UpdateRuns /\ ShouldUpdate(Unwrap(running).unit, lastRun'.trace)

\* The events of one kind in a trace, in order.
EventsOf(tr, op) == SelectSeq(tr, LAMBDA e : e.op = op)

\* C14: every rendering Update unit sets rendered to false, invokes the
\* render hook exactly once, hands the diff/patch the tree the previous
\* render stored (or the tree given at mount, or nothing) and stores the new
\* tree; so a mounted component that has rendered at least once has the
\* tree of its most recent render as previous tree, never none.
C14_RenderStoresTree ==
    /\ [][ RenderingUpdateRuns
             => /\ Count(lastRun'.trace, "render") = 1
                /\ EventsOf(lastRun'.trace, "apply") = <<EvApply(Unwrap(cell).last_root)>>
                /\ IsSome(cell')
                /\ ~Unwrap(cell').rendered
                /\ Unwrap(cell').last_root
                     = Some(CompRender(Unwrap(cell').component, hist'.renders))
                /\ hist'.renders = hist.renders + 1 ]_vars
    /\ []((IsSome(cell) /\ hist.renders > 0)
             => /\ IsSome(Unwrap(cell).last_root)
                /\ Unwrap(cell).last_root
                     = Some(CompRender(Unwrap(cell).component, hist.renders)))

\* The second render was handed the tree the first render stored.
C14_Witness ==
    /\ lastRun.class = "Update" /\ ~lastRun.empty
    /\ hist.renders = 2
    /\ EventsOf(lastRun.trace, "apply")
         = <<EvApply(Some(CompRender(CompCreate(InitialProps), 1)))>>
    /\ IsSome(cell)
    /\ Unwrap(Unwrap(cell).last_root).ver = 2

\* C15: a rendering Update unit updates the record's node reference by
\* exactly one of three cases: the diff/patch yields a node, and the
\* reference is set to it; it yields nothing and the new root is a nested
\* component, and the reference is linked to that component's reference; it
\* yields nothing and the root is no nested component, and the reference is
\* left as it was.
C15_NodeRefAfterRender ==
    [][ RenderingUpdateRuns
          => LET root == Unwrap(Unwrap(cell').last_root)
                 node == Apply(root, Unwrap(cell).last_root)
                 tr   == lastRun'.trace
             IN /\ Unwrap(cell').node_ref = OwnRef
                /\ refs'[ChildRef] = refs[ChildRef]
                /\ CASE IsSome(node) ->
                          /\ refs'[OwnRef] = [node |-> node, link |-> None]
                          /\ EventsOf(tr, "set") = <<EvSet(OwnRef)>>
                          /\ Count(tr, "link") = Count(tr, "change")
                     [] ~IsSome(node) /\ root.root = "comp" ->
                          /\ refs'[OwnRef] = [node |-> None, link |-> Some(ChildRef)]
                          /\ Count(tr, "set") = 0
                          /\ tr[Len(tr)] = EvLink(OwnRef, ChildRef)
                          /\ Count(tr, "link") = Count(tr, "change") + 1
                     [] OTHER ->
                          /\ refs'[OwnRef] = refs[OwnRef]
                          /\ Count(tr, "set") = 0
                          /\ Count(tr, "link") = Count(tr, "change") ]_vars

\* A render whose root is a nested component replaced a resolved node by
\* the link to the nested component's reference.
C15_Witness ==
    /\ lastRun.class = "Update" /\ ~lastRun.empty
    /\ hist.renders = 2
    /\ lastRun.trace[Len(lastRun.trace)] = EvLink(OwnRef, ChildRef)
    /\ refs[OwnRef] = [node |-> None, link |-> Some(ChildRef)]
    /\ IsSome(cell)
    /\ Unwrap(Unwrap(cell).last_root).root = "comp"

\* C16: an Update unit with Properties(props, newRef) links newRef to the
\* record's node reference before it invokes the change hook, also when the
\* hook returns false and no render follows; the record keeps the node
\* reference it had.
C16_LinkBeforeChange ==
    [][ (UpdateRuns /\ Unwrap(running).unit.update.tag = "Properties")
          => LET u  == Unwrap(running).unit.update
                 tr == lastRun'.trace
             IN /\ Len(tr) >= 2
                /\ tr[1] = EvLink(u.node_ref, Unwrap(cell).node_ref)
                /\ tr[2].op = "change" /\ tr[2].props = u.props
                /\ Count(tr, "change") = 1
                /\ refs'[u.node_ref] = [node |-> None,
                                        link |-> Some(Unwrap(cell).node_ref)]
                /\ IsSome(cell')
                /\ Unwrap(cell').node_ref = Unwrap(cell).node_ref ]_vars

\* The change hook returned false, nothing was rendered, and the incoming
\* reference forwards to the record's reference.
C16_Witness ==
    /\ lastRun.class = "Update" /\ ~lastRun.empty
    /\ Len(lastRun.trace) = 2
    /\ lastRun.trace[1] = EvLink(NewRef, OwnRef)
    /\ lastRun.trace[2].op = "change" /\ ~lastRun.trace[2].ret
    /\ refs[NewRef] = [node |-> None, link |-> Some(OwnRef)]
    /\ IsSome(cell) /\ Unwrap(cell).node_ref = OwnRef

\* A Destroy unit completes.
DestroyRuns == UnitCompletes /\ Unwrap(running).class = "Destroy"

\* Every Destroy unit that was enqueued has run.
DestroysDone ==
    /\ destroyCalled
    /\ destroyQ = <<>>
    /\ ~(pc = "unit" /\ Unwrap(running).class = "Destroy")

\* C17: whatever the number of destroy() calls, the teardown hook is
\* invoked once: the first Destroy unit takes the record, invokes teardown
\* and then, only if there is a previous tree, detaches that tree; every
\* further Destroy unit, and a Destroy unit on a scope that was never
\* mounted, invokes neither.
C17_TeardownOnce ==
    /\ [](hist.teardowns <= 1)
    /\ []((DestroysDone /\ mountCalled) => hist.teardowns = 1)
    /\ []((DestroysDone /\ ~mountCalled) => hist.teardowns = 0)
    /\ [][ DestroyRuns
             => /\ cell' = None
                /\ lastRun'.trace
                     = (IF ~IsSome(cell) THEN <<>>
                        ELSE IF IsSome(Unwrap(cell).last_root)
                        THEN <<EvTeardown, EvDetach(Unwrap(Unwrap(cell).last_root))>>
                        ELSE <<EvTeardown>>)
                /\ hist'.teardowns = (IF IsSome(cell) THEN 1 ELSE hist.teardowns)
                /\ (IsSome(cell) => hist.teardowns = 0) ]_vars

\* destroy() was called twice on the mounted component and both Destroy
\* units have run: the second found the cell empty, teardown ran once.
C17_Witness ==
    /\ calls = 2 /\ DestroysDone /\ mountCalled
    /\ lastCall.op = "destroy" /\ lastCall.afterDestroy
    /\ hist.teardowns = 1
    /\ lastRun.class = "Destroy" /\ lastRun.empty /\ lastRun.trace = <<>>

\* The render hook has run on the live component and the post-render hook
\* has not run since.
PostRenderDue == IsSome(cell) /\ hist.renderSincePost

\* C18: with a scheduler that keeps draining (FIFO per class, Update work
\* before Rendered work), every execution of the render hook is eventually
\* followed by an invocation of the post-render hook, unless a Destroy unit
\* executes first (or the program has panicked and runs no further unit).
C18_RenderLeadsToPostRender ==
    PostRenderDue ~> (~hist.renderSincePost \/ hist.destroyed \/ panicked)

\* Two renders, each followed by its post-render hook, on a live component.
C18_Witness ==
    /\ IsSome(cell)
    /\ hist.renders = 2 /\ hist.posts = 2
    /\ ~hist.renderSincePost
    /\ Unwrap(cell).rendered

\* A Rendered unit completes and has invoked the post-render hook.
PostRenderRuns ==
    /\ UnitCompletes
    /\ Unwrap(running).class = "Rendered"
    /\ Count(lastRun'.trace, "rendered") = 1

====
